---------------------------- MODULE Spec2Model ----------------------------
(***************************************************************************)
(* Model of the Kali live-USB persistence setup scripts:                   *)
(*   src/kali_persistence_setup.py    (the orchestrator, main)             *)
(*   src/kali_persistence_setup_b.py  (the standalone config writer)       *)
(*                                                                         *)
(* Text (device paths, labels, blkid output lines) is modelled as          *)
(* sequences of one-character strings, so that the code's prefix tests,    *)
(* substring tests and string concatenations are computed, not assumed.    *)
(* Sizes reported by lsblk -b are counted in 512-byte sectors; offsets     *)
(* reported by parted in MiB are counted in hundredths of a MiB.           *)
(***************************************************************************)
EXTENDS Integers, Naturals, Sequences, FiniteSets, TLC

VARIABLES
    \* --- the machine the program runs on ---
    disktab,      \* disk path -> [size, rm, lines]: the disks, with parted's report
    parttab,      \* partition path -> its record (filesystem, labels, content, node)
    mounts,       \* the mount table: a sequence of [dev, target], last mounted last
    \* --- the running program ---
    pc,           \* position of the running program
    device,       \* args.device: None or a path
    disk,         \* main's local `disk`
    sys_disk_mps, \* main's local `sys_disk_mps`: what findmnt printed
    parts,        \* main's local `parts`
    todo,         \* mount targets unmount_all_partitions has still to unmount
    region,       \* create_partition3's (start_aligned, end)
    part_path,    \* the partition ensure_ext4_persistence / mount_and_write_conf act on
    raised,       \* an exception is propagating through a finally clause
    exit_code,    \* the process's exit status, None while it runs
    error,        \* which error ended the run, None if none
    \* --- history, for stating the claims ---
    calls,        \* the state-changing commands issued so far, in order
    fails,        \* the steps whose external command returned non-success
    fast,         \* the run took the existing-volume path (main, lines 290-295)
    disktab0,     \* disktab as it was when the run started
    parttab0,     \* parttab as it was when the run started
    mounts0,      \* mounts as it was when the run started
    \* --- pure-function checks ---
    arg,          \* input of the pure function under check
    ret,          \* its result, NotYet before the call
    \* --- the standalone config writer ---
    mount_point   \* kali_persistence_setup_b's global MOUNT_POINT, as text

worldVars == <<disktab, parttab, mounts>>
progVars == <<pc, device, disk, sys_disk_mps, parts, todo, region, part_path, raised,
              exit_code, error>>
histVars == <<calls, fails, fast, disktab0, parttab0, mounts0>>
pureVars == <<arg, ret>>
writerVars == <<mount_point>>
vars == <<worldVars, progVars, histVars, pureVars, writerVars>>

NotYet == "not_yet"
None == "None"

\* Python's None where a path or a region is expected (`if not disk`,
\* `if not region` treat it like the empty value)
NoPath == <<>>
NoRegion == <<>>

---------------------------------------------------------------------------
(* Text helpers: Python str operations on sequences of characters.         *)

\* s.startswith(p)
StartsWith(s, p) ==
    /\ Len(p) <= Len(s)
    /\ SubSeq(s, 1, Len(p)) = p

\* s.endswith(p)
EndsWith(s, p) ==
    /\ Len(p) <= Len(s)
    /\ SubSeq(s, Len(s) - Len(p) + 1, Len(s)) = p

\* sub in s
Contains(s, sub) ==
    \E i \in 1..(Len(s) - Len(sub) + 1) : SubSeq(s, i, i + Len(sub) - 1) = sub

Digits == <<"0", "1", "2", "3", "4", "5", "6", "7", "8", "9">>

IsDigit(c) == \E i \in 1..Len(Digits) : Digits[i] = c

DigitVal(c) == (CHOOSE i \in 1..Len(Digits) : Digits[i] = c) - 1

\* str(n) for a natural number n, as in an f-string "{n}"
RECURSIVE Str(_)
Str(n) ==
    IF n < 10 THEN <<Digits[n + 1]>>
    ELSE Str(n \div 10) \o <<Digits[(n % 10) + 1]>>

\* str.lower() on one character (the letters the model's labels use)
LowerChar(c) ==
    CASE c = "K" -> "k"
      [] c = "A" -> "a"
      [] c = "L" -> "l"
      [] c = "I" -> "i"
      [] c = "V" -> "v"
      [] c = "F" -> "f"
      [] c = "T" -> "t"
      [] c = "D" -> "d"
      [] OTHER -> c

Lower(s) == [i \in 1..Len(s) |-> LowerChar(s[i])]

\* index of the last "/" of s, 0 if none
LastSlash(s) ==
    IF \E i \in 1..Len(s) : s[i] = "/"
    THEN CHOOSE i \in 1..Len(s) : s[i] = "/" /\ \A j \in (i + 1)..Len(s) : s[j] # "/"
    ELSE 0

\* s without its trailing "/" characters (a path of only slashes keeps one)
RECURSIVE StripSlashes(_)
StripSlashes(s) ==
    IF Len(s) > 1 /\ s[Len(s)] = "/" THEN StripSlashes(SubSeq(s, 1, Len(s) - 1)) ELSE s

\* pathlib.Path(p).name: the final component of the path
PathName(p) ==
    LET q == StripSlashes(p)
    IN  IF q = <<"/">> THEN <<>> ELSE SubSeq(q, LastSlash(q) + 1, Len(q))

\* words used in device names, labels and tool output
DEV == <<"/", "d", "e", "v", "/">>
W_nvme == <<"n", "v", "m", "e">>
W_mmcblk == <<"m", "m", "c", "b", "l", "k">>
W_p == <<"p">>

sda == DEV \o <<"s", "d", "a">>
sdb == DEV \o <<"s", "d", "b">>
sdc == DEV \o <<"s", "d", "c">>
sdx == DEV \o <<"s", "d", "x">>
nvme0n1 == DEV \o W_nvme \o <<"0", "n", "1">>
mmcblk0 == DEV \o W_mmcblk \o <<"0">>
loop0 == DEV \o <<"l", "o", "o", "p", "0">>
md0 == DEV \o <<"m", "d", "0">>
vda == DEV \o <<"v", "d", "a">>
nvmedisk == DEV \o W_nvme \o <<"d", "i", "s", "k">>

---------------------------------------------------------------------------
(* partition_path (kali_persistence_setup.py, lines 217-225)               *)

partition_path(disk_path, n) ==
    LET base == PathName(disk_path)
    IN  IF StartsWith(base, W_nvme) \/ StartsWith(base, W_mmcblk)
        THEN disk_path \o W_p \o Str(n)
        ELSE disk_path \o Str(n)

\* The naming rule the kernel applies to partition device nodes: a "p" is
\* put between disk name and partition number exactly when the disk name
\* ends in a digit.
KernelPartPath(disk_path, n) ==
    LET base == PathName(disk_path)
    IN  IF Len(base) > 0 /\ IsDigit(base[Len(base)])
        THEN disk_path \o W_p \o Str(n)
        ELSE disk_path \o Str(n)

---------------------------------------------------------------------------
(* Sorting: list.sort(key=..., reverse=True) is stable, so elements with   *)
(* equal keys keep their original order.                                   *)

\* position (1-based) that element i takes after sort(reverse=True, key=...),
\* keys[i] being the key of element i
RankDesc(keys, i) ==
    1 + Cardinality({j \in 1..Len(keys) :
                        \/ keys[j] > keys[i]
                        \/ (keys[j] = keys[i] /\ j < i)})

\* s after s.sort(reverse=True, key=...), keys[i] being the key of s[i]
SortDesc(s, keys) ==
    [k \in 1..Len(s) |-> s[CHOOSE i \in 1..Len(s) : RankDesc(keys, i) = k]]

\* seq[:n]
Take(s, n) == SubSeq(s, 1, IF Len(s) < n THEN Len(s) ELSE n)

---------------------------------------------------------------------------
(* get_free_region_mib (kali_persistence_setup.py, lines 159-195)          *)
(*                                                                         *)
(* A line of `parted -sm <disk> unit MiB print free` is a record           *)
(* [free, s, e]: whether the line is a free-space line, and its start and  *)
(* end offsets.  Offsets are in hundredths of a MiB (parted prints two     *)
(* decimals, and the code rounds to two decimals).                         *)

\* hundredths per MiB: the two decimals of round(start + 1.0, 2)
MiB == 100

\* "if e - s >= 32": the usability threshold, in MiB
MIN_FREE_MIB == 32

RegionEnd(r) == r[2]

\* A plausible slip: the span filter is dropped.
get_free_region_nofilter(out) ==
    LET free_lines == SelectSeq(out, LAMBDA ln : ln.free)
        regions == [i \in 1..Len(free_lines) |-> <<free_lines[i].s, free_lines[i].e>>]
    IN  IF regions = <<>> THEN NoRegion ELSE SortDesc(regions, [i \in 1..Len(regions) |-> RegionEnd(regions[i])])[1]

get_free_region_mib(out) ==
    LET free_lines == SelectSeq(out, LAMBDA ln : ln.free)
        usable == SelectSeq(free_lines, LAMBDA ln : ln.e - ln.s >= MIN_FREE_MIB * MiB)
        regions == [i \in 1..Len(usable) |-> <<usable[i].s, usable[i].e>>]
    IN  IF free_lines = <<>> THEN NoRegion
        ELSE IF regions = <<>> THEN NoRegion
        ELSE SortDesc(regions, [i \in 1..Len(regions) |-> RegionEnd(regions[i])])[1]

FreeLn(s, e) == [free |-> TRUE, s |-> s, e |-> e]
PartLn(s, e) == [free |-> FALSE, s |-> s, e |-> e]

---------------------------------------------------------------------------
(* find_kali_usb_candidate (kali_persistence_setup.py, lines 56-113)       *)
(*                                                                         *)
(* The lsblk tree is a sequence of device records                          *)
(*   [path, type, size, rm, children], children a sequence of              *)
(*   [path, type, size, fstype, label, mountpoints].                       *)
(* Sizes are in 512-byte sectors (lsblk -b prints bytes, always a whole    *)
(* number of sectors).                                                     *)

SectorsPerMiB == 2 * 1024
SectorsPerGiB == 1024 * SectorsPerMiB

\* a length in hundredths of a MiB, in sectors
Sectors(c) == (c \div 100) * SectorsPerMiB + ((c % 100) * SectorsPerMiB) \div 100

W_iso9660 == <<"i", "s", "o", "9", "6", "6", "0">>
W_vfat == <<"v", "f", "a", "t">>
W_fat == <<"f", "a", "t">>
W_fat32 == <<"f", "a", "t", "3", "2">>
W_ext4 == <<"e", "x", "t", "4">>
W_kali == <<"k", "a", "l", "i">>
W_KaliLive == <<"K", "a", "l", "i", " ", "L", "i", "v", "e">>
W_KALI == <<"K", "A", "L", "I">>
W_data == <<"d", "a", "t", "a">>
W_persistence == <<"p", "e", "r", "s", "i", "s", "t", "e", "n", "c", "e">>

\* "for _, path, d in candidates[:10]"
LIST_LIMIT == 10

\* the loop over children, lines 84-92
IsoIsh(children) ==
    \E i \in 1..Len(children) :
        LET psize == children[i].size
            fstype == Lower(children[i].fstype)
            label == Lower(children[i].label)
        IN  /\ 4 * SectorsPerGiB <= psize
            /\ psize <= 8 * SectorsPerGiB
            /\ \/ fstype \in {W_iso9660, W_vfat, W_fat, W_fat32}
               \/ Contains(label, W_kali)

Tiny(children) ==
    \E i \in 1..Len(children) :
        /\ 1 * SectorsPerMiB <= children[i].size
        /\ children[i].size <= 8 * SectorsPerMiB

\* A plausible slip: strict comparisons at the size limits.
IsCandidate_strict(d) ==
    /\ ~(d.size <= 8 * SectorsPerGiB)
    /\ ~(Len(d.children) < 2)
    /\ IsoIsh(d.children)
    /\ Tiny(d.children)

\* lines 74-94: the disk is appended to candidates
IsCandidate(d) ==
    /\ ~(d.size < 8 * SectorsPerGiB)
    /\ ~(Len(d.children) < 2)
    /\ IsoIsh(d.children)
    /\ Tiny(d.children)

\* line 96
Score(d) == 2 + (IF d.rm = 1 THEN 1 ELSE 0)

CandScore(c) == c.score

\* lines 66-99: the candidates, sorted by descending score
Candidates(tree) ==
    LET disks == SelectSeq(tree, LAMBDA d : d.type = "disk")
        cands == SelectSeq(disks, IsCandidate)
        scored == [i \in 1..Len(cands) |->
                     [score |-> Score(cands[i]), path |-> cands[i].path, d |-> cands[i]]]
    IN  SortDesc(scored, [i \in 1..Len(scored) |-> CandScore(scored[i])])

\* the disks a "Multiple possible USB disks" message lists, lines 108-110
Listed(candidates) ==
    LET shown == Take(candidates, LIST_LIMIT)
    IN  [i \in 1..Len(shown) |->
           [path |-> shown[i].path, size |-> shown[i].d.size, rm |-> shown[i].d.rm]]

\* A plausible slip: the first candidate is returned without the tie test.
find_kali_usb_candidate_guess(tree) ==
    LET candidates == Candidates(tree)
    IN  IF candidates = <<>>
        THEN [path |-> NoPath, err |-> "none", listed |-> <<>>]
        ELSE [path |-> candidates[1].path, err |-> None, listed |-> <<>>]

\* returns (path, err): err is None, "none" (no candidate) or "multiple"
\* (ambiguous), with the disks the message lists
find_kali_usb_candidate(tree) ==
    LET candidates == Candidates(tree)
    IN  IF candidates = <<>>
        THEN [path |-> NoPath, err |-> "none", listed |-> <<>>]
        ELSE LET top_score == candidates[1].score
                 top == SelectSeq(candidates, LAMBDA c : c.score = top_score)
             IN  IF Len(top) # 1
                 THEN [path |-> NoPath, err |-> "multiple", listed |-> Listed(candidates)]
                 ELSE [path |-> candidates[1].path, err |-> None, listed |-> <<>>]

---------------------------------------------------------------------------
(* The machine: disks, partitions, the mount table, and what the external  *)
(* tools (lsblk, blkid, findmnt, parted, mkfs.ext4, mount, umount) report  *)
(* about them and do to them.                                              *)

\* MOUNT_POINT and CONF_CONTENT, kali_persistence_setup.py lines 28-29
MOUNT_POINT == "/mnt/kali_persistence"
CONF_CONTENT == "/ union\n"

\* Most partitions a disk holds when the run starts.
MaxExisting == 3

\* partition numbers in use or assignable
PartNumbers == 1..(MaxExisting + 1)

\* the order in which lsblk and blkid list the disks
DiskOrder == <<sda, sdb, sdc>>

\* the elements of a set of numbers, ascending
SortedSeq(S) ==
    [k \in 1..Cardinality(S) |-> CHOOSE n \in S : Cardinality({m \in S : m < n}) = k - 1]

\* concatenation of a sequence of sequences
RECURSIVE Flatten(_)
Flatten(ss) == IF ss = <<>> THEN <<>> ELSE Head(ss) \o Flatten(Tail(ss))

\* the partition paths of disk d, by partition number
PartsOf(d) ==
    LET ns == {n \in PartNumbers : KernelPartPath(d, n) \in DOMAIN parttab}
        sorted == SortedSeq(ns)
    IN  [k \in 1..Len(sorted) |-> KernelPartPath(d, sorted[k])]

\* the targets a device is mounted at, oldest first
MountTargets(dev) ==
    LET ms == SelectSeq(mounts, LAMBDA m : m.dev = dev)
    IN  [k \in 1..Len(ms) |-> ms[k].target]

IsMounted(dev) == MountTargets(dev) # <<>>

\* index in the mount table of the mount that is visible at a target (the
\* last one mounted there), 0 if nothing is mounted there
TopMountIdx(target) ==
    IF \E i \in 1..Len(mounts) : mounts[i].target = target
    THEN CHOOSE i \in 1..Len(mounts) :
            /\ mounts[i].target = target
            /\ \A j \in (i + 1)..Len(mounts) : mounts[j].target # target
    ELSE 0

RemoveAt(seq, i) == SubSeq(seq, 1, i - 1) \o SubSeq(seq, i + 1, Len(seq))

\* os.path.exists(path) for a device path, with partition table pt
PathExistsIn(pt, path) ==
    \/ path \in DOMAIN disktab
    \/ path \in DOMAIN pt /\ pt[path].node

PathExists(path) == PathExistsIn(parttab, path)

\* lsblk -bJ -o NAME,PATH,TYPE,SIZE,RM,RO,FSTYPE,LABEL,...,MOUNTPOINTS
LsblkTree ==
    LET present == SelectSeq(DiskOrder, LAMBDA d : d \in DOMAIN disktab)
        child(pp) == [path |-> pp, type |-> "part", size |-> parttab[pp].size,
                      fstype |-> parttab[pp].fstype, label |-> parttab[pp].label,
                      mountpoints |-> MountTargets(pp)]
    IN  [i \in 1..Len(present) |->
           [path |-> present[i], type |-> "disk", size |-> disktab[present[i]].size,
            rm |-> disktab[present[i]].rm,
            children |-> [j \in 1..Len(PartsOf(present[i])) |-> child(PartsOf(present[i])[j])]]]

\* lsblk -nr -o PATH,MOUNTPOINTS <disk>: the disk's line, then its partitions'
LsblkMounts(d) ==
    IF d \notin DOMAIN disktab THEN <<>>
    ELSE <<[path |-> d, mps |-> MountTargets(d)]>> \o
         [j \in 1..Len(PartsOf(d)) |->
            [path |-> PartsOf(d)[j], mps |-> MountTargets(PartsOf(d)[j])]]

\* a desktop's mount target for a volume labelled "Kali Live"
LABEL_TARGET == "/media/kali/Kali Live"

\* the mount targets of the machines modelled, and their text
Targets == {"/", "/media/usb", MOUNT_POINT, LABEL_TARGET}

TargetText(t) ==
    IF t = "/" THEN <<"/">>
    ELSE IF t = "/media/usb" THEN <<"/", "m", "e", "d", "i", "a", "/", "u", "s", "b">>
    ELSE IF t = MOUNT_POINT
         THEN <<"/", "m", "n", "t", "/", "k", "a", "l", "i", "_",
                "p", "e", "r", "s", "i", "s", "t", "e", "n", "c", "e">>
    ELSE <<"/", "m", "e", "d", "i", "a", "/", "k", "a", "l", "i", "/",
           "K", "a", "l", "i", " ", "L", "i", "v", "e">>

\* lsblk's raw output format (-r) hex-escapes the blanks of a cell
RawEscape(s) ==
    Flatten([i \in 1..Len(s) |-> IF s[i] = " " THEN <<"\\", "x", "2", "0">> ELSE <<s[i]>>])

\* the MOUNTPOINTS cell of a raw line: the targets, each escaped, joined by
\* an escaped newline
RawCell(ts) ==
    Flatten([i \in 1..Len(ts) |->
               (IF i > 1 THEN <<"\\", "x", "0", "a">> ELSE <<>>) \o RawEscape(TargetText(ts[i]))])

\* lsblk -nr -o PATH,MOUNTPOINTS <disk>, as text: one line per device, the
\* path, a blank, and the cell
LsblkMountsText(d) ==
    [i \in 1..Len(LsblkMounts(d)) |->
       LsblkMounts(d)[i].path \o <<" ">> \o RawCell(LsblkMounts(d)[i].mps)]

\* str.split(): the maximal runs of non-blank characters
RECURSIVE SplitWs(_)
SplitWs(s) ==
    IF s = <<>> THEN <<>>
    ELSE IF Head(s) = " " THEN SplitWs(Tail(s))
    ELSE LET n == CHOOSE k \in 1..Len(s) :
                     /\ \A i \in 1..k : s[i] # " "
                     /\ k = Len(s) \/ s[k + 1] = " "
         IN  <<SubSeq(s, 1, n)>> \o SplitWs(SubSeq(s, n + 1, Len(s)))

\* the mount target a path given to umount names; a path that names none
\* of them is no mount target at all
NO_TARGET == "(not a mount target)"

TargetNamed(text) ==
    IF \E t \in Targets : TargetText(t) = text
    THEN CHOOSE t \in Targets : TargetText(t) = text
    ELSE NO_TARGET

\* findmnt -nro SOURCE /
FindmntRoot ==
    IF TopMountIdx("/") = 0 THEN <<>> ELSE mounts[TopMountIdx("/")].dev

Q == <<"\"">>
W_LABEL == <<"L", "A", "B", "E", "L">>
W_TYPE == <<"T", "Y", "P", "E">>
W_PART == <<"P", "A", "R", "T">>

Tag(key, value) == <<" ">> \o key \o <<"=">> \o Q \o value \o Q

\* the line blkid prints for a partition:
\*   /dev/sdb3: LABEL="persistence" TYPE="ext4" PARTLABEL="primary"
\* (a tag is left out when the partition has no such value)
BlkidLine(pp) ==
    LET r == parttab[pp]
    IN  pp \o <<":">>
           \o (IF r.label # <<>> THEN Tag(W_LABEL, r.label) ELSE <<>>)
           \o (IF r.fstype # <<>> THEN Tag(W_TYPE, r.fstype) ELSE <<>>)
           \o (IF r.partlabel # <<>> THEN Tag(W_PART \o W_LABEL, r.partlabel) ELSE <<>>)

HasTags(pp) ==
    parttab[pp].label # <<>> \/ parttab[pp].fstype # <<>> \/ parttab[pp].partlabel # <<>>

\* blkid, with no argument: one line per partition that has any tag
BlkidAll ==
    LET present == SelectSeq(DiskOrder, LAMBDA d : d \in DOMAIN disktab)
        all == Flatten([i \in 1..Len(present) |-> PartsOf(present[i])])
        tagged == SelectSeq(all, HasTags)
    IN  [i \in 1..Len(tagged) |-> BlkidLine(tagged[i])]

\* blkid <part_path>
BlkidOne(pp) ==
    IF pp \in DOMAIN parttab /\ HasTags(pp) THEN BlkidLine(pp) ELSE <<>>

\* the needles the code looks for: LABEL="persistence" and TYPE="ext4"
NEEDLE_LABEL == W_LABEL \o <<"=">> \o Q \o W_persistence \o Q
NEEDLE_TYPE == W_TYPE \o <<"=">> \o Q \o W_ext4 \o Q

\* line.split(":", 1)[0].strip()
BeforeColon(line) ==
    IF \E i \in 1..Len(line) : line[i] = ":"
    THEN SubSeq(line, 1, (CHOOSE i \in 1..Len(line) :
                            line[i] = ":" /\ \A j \in 1..(i - 1) : line[j] # ":") - 1)
    ELSE line

---------------------------------------------------------------------------
(* get_part_paths (kali_persistence_setup.py, lines 115-130)               *)

\* "return int(m.group(1)) if m else 999"
PARTNUM_DEFAULT == 999

\* index of the first character of the run of digits that ends p
DigitsStart(p) ==
    CHOOSE i \in 1..(Len(p) + 1) :
        /\ \A j \in i..Len(p) : IsDigit(p[j])
        /\ (i > 1 => ~IsDigit(p[i - 1]))

RECURSIVE ToInt(_)
ToInt(ds) ==
    IF ds = <<>> THEN 0 ELSE 10 * ToInt(SubSeq(ds, 1, Len(ds) - 1)) + DigitVal(ds[Len(ds)])

\* partnum: re.search(r"(\d+)$", p)
partnum(p) ==
    IF DigitsStart(p) > Len(p) THEN PARTNUM_DEFAULT
    ELSE ToInt(SubSeq(p, DigitsStart(p), Len(p)))

\* s after s.sort(key=...): stable, ascending; keys[i] is the key of s[i]
SortAsc(s, keys) ==
    [k \in 1..Len(s) |->
       s[CHOOSE i \in 1..Len(s) :
           1 + Cardinality({j \in 1..Len(s) :
                              \/ keys[j] < keys[i]
                              \/ (keys[j] = keys[i] /\ j < i)}) = k]]

get_part_paths(tree, disk_path) ==
    LET found == SelectSeq(tree, LAMBDA d : d.path = disk_path /\ d.type = "disk")
    IN  IF found = <<>> THEN <<>>
        ELSE LET children == SelectSeq(found[1].children, LAMBDA c : c.type = "part")
                 paths == [i \in 1..Len(children) |-> children[i].path]
             IN  SortAsc(paths, [i \in 1..Len(paths) |-> partnum(paths[i])])

---------------------------------------------------------------------------
(* The decisions main and its helpers take on what the tools printed.      *)

\* main, line 273: sys_disk_mps and sys_disk_mps.startswith(disk)
IsSystemDisk(out, d) == out # <<>> /\ StartsWith(out, d)

\* main, lines 287-291: the device of the first blkid line carrying both
\* needles, NoPath if the output has no LABEL needle or no such line
ExistingPersistence(out) ==
    IF ~(\E i \in 1..Len(out) : Contains(out[i], NEEDLE_LABEL)) THEN NoPath
    ELSE LET hits == SelectSeq(out, LAMBDA line :
                        Contains(line, NEEDLE_LABEL) /\ Contains(line, NEEDLE_TYPE))
         IN  IF hits = <<>> THEN NoPath ELSE BeforeColon(hits[1])

\* ensure_ext4_persistence, line 230
AlreadyPersistence(blk) == Contains(blk, NEEDLE_TYPE) /\ Contains(blk, NEEDLE_LABEL)

\* A plausible slip: no try/finally, so a failed write skips the unmount.
after_write_nofinally(ok) == IF ok THEN "mw_umount" ELSE "mw_raise"

\* mount_and_write_conf, lines 241-246: the finally clause runs the unmount
\* whether or not the write raised
after_write(ok) == "mw_umount"

\* A plausible slip: the newline is left out.
written_content_nonewline == "/ union"

\* mount_and_write_conf, line 243: conf.write_text(CONF_CONTENT)
written_content == CONF_CONTENT

\* A plausible slip: the start is not moved forward.
aligned_start_none(start) == start

\* create_partition3, line 208: round(start + 1.0, 2)
aligned_start(start) == start + 1 * MiB

---------------------------------------------------------------------------
(* The orchestrator: main of kali_persistence_setup.py, lines 248-317,     *)
(* one action per external command (with the Python that follows it up to  *)
(* the next command).  The run is modelled from line 251 on: require_root  *)
(* has passed.  A command run with check=True that returns non-success     *)
(* raises RuntimeError, which the handler of lines 320-324 turns into      *)
(* exit status 1.                                                          *)

Call(op, dev, at, ok) == [op |-> op, dev |-> dev, at |-> at, ok |-> ok]

Goto(next) == pc' = next /\ UNCHANGED <<exit_code, error>>

\* A plausible slip: the failure is reported but the exit status is 0.
Abort_exit0(kind) == pc' = "done" /\ exit_code' = 0 /\ error' = kind

\* sys.exit(1), or an exception reaching lines 322-324
Abort(kind) == pc' = "done" /\ exit_code' = 1 /\ error' = kind

\* main returns
Finish == pc' = "done" /\ exit_code' = 0 /\ UNCHANGED error

\* history: a command that is not logged in calls returned non-success; step
\* is "findmnt", "blkid_all", "blkid", "sync", or "query" for any other
Failed(step, ok) == fails' = IF ok THEN fails ELSE fails \cup {step}

fixedVars == <<device, disktab0, parttab0, mounts0, arg, ret, mount_point>>

\* lines 255-268: first inventory, Resolve, and the existence test
Inventory ==
    /\ pc = "lsblk1"
    /\ \E ok \in BOOLEAN :
         /\ Failed("query", ok)
         /\ IF ~ok THEN Abort("tool") /\ UNCHANGED disk
            ELSE LET found == IF device # NoPath
                              THEN [path |-> device, err |-> None, listed |-> <<>>]
                              ELSE find_kali_usb_candidate(LsblkTree)
                 IN  IF found.err # None THEN Abort(found.err) /\ UNCHANGED disk
                     ELSE IF ~PathExists(found.path)
                          THEN Abort("not_found") /\ disk' = found.path
                          ELSE Goto("findmnt") /\ disk' = found.path
    /\ UNCHANGED <<worldVars, sys_disk_mps, parts, todo, region, part_path, raised,
                   calls, fast, fixedVars>>

\* lines 272-275: the system-disk guard (findmnt runs with check=False)
SystemDiskCheck ==
    /\ pc = "findmnt"
    /\ \E ok \in BOOLEAN :
         LET out == IF ok THEN FindmntRoot ELSE <<>>
         IN  /\ Failed("findmnt", ok)
             /\ sys_disk_mps' = out
             /\ IF IsSystemDisk(out, disk) THEN Abort("system_disk") ELSE Goto("is_mounted")
    /\ UNCHANGED <<worldVars, disk, parts, todo, region, part_path, raised,
                   calls, fast, fixedVars>>

\* disk_is_mounted, lines 137-140, and the test of line 278
DiskIsMounted ==
    /\ pc = "is_mounted"
    /\ \E ok \in BOOLEAN :
         LET lines == IF ok THEN LsblkMounts(disk) ELSE <<>>
             mp == Flatten([i \in 1..Len(lines) |-> lines[i].mps])
         IN  /\ Failed("query", ok)
             /\ IF mp # <<>> THEN Goto("umount_list") ELSE Goto("lsblk2")
    /\ UNCHANGED <<worldVars, disk, sys_disk_mps, parts, todo, region, part_path, raised,
                   calls, fast, fixedVars>>

\* unmount_all_partitions, lines 144-155: the mount targets to unmount, the
\* disk's own line left out
UnmountList ==
    /\ pc = "umount_list"
    /\ \E ok \in BOOLEAN :
         LET lines == IF ok THEN LsblkMountsText(disk) ELSE <<>>
             cols == [i \in 1..Len(lines) |-> SplitWs(lines[i])]
             kept == SelectSeq(cols, LAMBDA c : c # <<>> /\ c[1] # disk /\ Len(c) >= 2)
             mps == Flatten([i \in 1..Len(kept) |-> Tail(kept[i])])
         IN  /\ Failed("query", ok)
             /\ todo' = [i \in 1..Len(mps) |-> TargetNamed(mps[i])]
             /\ IF mps = <<>> THEN Goto("lsblk2") ELSE Goto("umount_each")
    /\ UNCHANGED <<worldVars, disk, sys_disk_mps, parts, region, part_path, raised,
                   calls, fast, fixedVars>>

\* umount <target> can succeed only if something is mounted there, and the
\* root filesystem is always busy
CanUnmount(target) == TopMountIdx(target) # 0 /\ target # "/"

\* unmount_all_partitions, lines 156-157: umount -f of one target, its
\* failure ignored (check=False)
UnmountOne ==
    /\ pc = "umount_each"
    /\ todo # <<>>
    /\ \E ok \in BOOLEAN :
         /\ ok => CanUnmount(Head(todo))
         /\ mounts' = IF ok THEN RemoveAt(mounts, TopMountIdx(Head(todo))) ELSE mounts
         /\ calls' = Append(calls, Call("umount_f", <<>>, Head(todo), ok))
    /\ todo' = Tail(todo)
    /\ IF Tail(todo) = <<>> THEN Goto("lsblk2") ELSE Goto("umount_each")
    /\ UNCHANGED <<disktab, parttab, disk, sys_disk_mps, parts, region, part_path, raised,
                   fails, fast, fixedVars>>

\* lines 282-283: second inventory and the target disk's partition list
Reinventory ==
    /\ pc = "lsblk2"
    /\ \E ok \in BOOLEAN :
         /\ Failed("query", ok)
         /\ IF ~ok THEN Abort("tool") /\ UNCHANGED parts
            ELSE Goto("blkid_all") /\ parts' = get_part_paths(LsblkTree, disk)
    /\ UNCHANGED <<worldVars, disk, sys_disk_mps, todo, region, part_path, raised,
                   calls, fast, fixedVars>>

\* A plausible slip: the comparison is off by one.
NeedsPartition_upto3(ps) == Len(ps) <= 3

\* main, line 298: len(parts) < 3
NeedsPartition(ps) == Len(ps) < 3

\* lines 286-300: the existing-volume lookup (blkid runs with check=False)
\* and the partition-count gate
CheckExisting ==
    /\ pc = "blkid_all"
    /\ \E ok \in BOOLEAN :
         LET out == IF ok THEN BlkidAll ELSE <<>>
             pdev == ExistingPersistence(out)
         IN  /\ Failed("blkid_all", ok)
             /\ IF pdev # NoPath
                THEN Goto("mw_mount") /\ part_path' = pdev /\ fast' = TRUE
                ELSE /\ UNCHANGED <<part_path, fast>>
                     /\ IF NeedsPartition(parts) THEN Goto("parted_print") ELSE Goto("p3_check")
    /\ UNCHANGED <<worldVars, disk, sys_disk_mps, parts, todo, region, raised,
                   calls, fixedVars>>

\* create_partition3, lines 202-210: the free region and its alignment
FreeRegion ==
    /\ pc = "parted_print"
    /\ \E ok \in BOOLEAN :
         /\ Failed("query", ok)
         /\ IF ~ok THEN Abort("tool") /\ UNCHANGED region
            ELSE LET r == get_free_region_mib(disktab[disk].lines)
                 IN  IF r = NoRegion THEN Abort("no_space") /\ UNCHANGED region
                     ELSE IF r[2] - aligned_start(r[1]) < MIN_FREE_MIB * MiB
                          THEN Abort("no_space_aligned") /\ UNCHANGED region
                          ELSE Goto("mkpart") /\ region' = <<aligned_start(r[1]), r[2]>>
    /\ UNCHANGED <<worldVars, disk, sys_disk_mps, parts, todo, part_path, raised,
                   calls, fast, fixedVars>>

\* the number parted gives a new partition: the lowest one not in use
NewPartNum(d) ==
    CHOOSE n \in PartNumbers :
        /\ KernelPartPath(d, n) \notin DOMAIN parttab
        /\ \A m \in 1..(n - 1) : KernelPartPath(d, m) \in DOMAIN parttab

\* a partition as parted mkpart leaves it: no filesystem, no device node yet
NewPart(d, n, start, end) ==
    [disk |-> d, num |-> n, size |-> Sectors(end - start),
     fstype |-> <<>>, label |-> <<>>, partlabel |-> <<>>,
     conf |-> "absent", data |-> FALSE, node |-> FALSE]

\* parted's report after the partition was made in the extent ending at end
LinesAfterMkpart(lines, start, end) ==
    Flatten([i \in 1..Len(lines) |->
               IF lines[i].free /\ lines[i].e = end /\ lines[i].s <= start
               THEN <<FreeLn(lines[i].s, start), PartLn(start, end)>>
               ELSE <<lines[i]>>])

\* create_partition3, line 214: parted mkpart primary ext4 <start> <end>
Mkpart ==
    /\ pc = "mkpart"
    /\ \E ok \in BOOLEAN :
         /\ calls' = Append(calls, Call("mkpart", disk, "", ok))
         /\ IF ~ok THEN Abort("tool") /\ UNCHANGED <<disktab, parttab>>
            ELSE LET n == NewPartNum(disk)
                     pp == KernelPartPath(disk, n)
                 IN  /\ Goto("settle1")
                     /\ parttab' = [q \in DOMAIN parttab \cup {pp} |->
                                      IF q = pp THEN NewPart(disk, n, region[1], region[2])
                                      ELSE parttab[q]]
                     /\ disktab' = [disktab EXCEPT ![disk].lines =
                                      LinesAfterMkpart(@, region[1], region[2])]
    /\ UNCHANGED <<mounts, disk, sys_disk_mps, parts, todo, region, part_path, raised,
                   fails, fast, fixedVars>>

\* udev has made the device node of every partition
NodesAppear(pt) == [q \in DOMAIN pt |-> [pt[q] EXCEPT !.node = TRUE]]

\* wait_for_kernel, lines 132-135: a pause and udevadm settle, whose result
\* is discarded (check=False); after it the device nodes of new partitions
\* have appeared, or not yet
Settle(at, next) ==
    /\ pc = at
    /\ \E appear \in BOOLEAN :
         parttab' = IF appear THEN NodesAppear(parttab) ELSE parttab
    /\ Goto(next)
    /\ UNCHANGED <<disktab, mounts, disk, sys_disk_mps, parts, todo, region, part_path,
                   raised, calls, fails, fast, fixedVars>>

\* A plausible slip: after the new partition has settled the run goes on to
\* the config-write stage at once.
SettleAfterMkpart_noformat == Settle("settle1", "mw_mount")

\* create_partition3, line 215
SettleAfterMkpart == Settle("settle1", "p3_check")

\* lines 303-304: the expected path of partition 3, and whether it exists
ResolveP3 ==
    /\ pc = "p3_check"
    /\ part_path' = partition_path(disk, 3)
    /\ IF PathExists(partition_path(disk, 3)) THEN Goto("ens_blkid") ELSE Goto("settle2")
    /\ UNCHANGED <<worldVars, disk, sys_disk_mps, parts, todo, region, raised,
                   calls, fails, fast, fixedVars>>

\* A plausible slip: after the second settle the path is not tested again.
SettleAndRecheck_untested ==
    /\ pc = "settle2"
    /\ \E appear \in BOOLEAN :
         parttab' = IF appear THEN NodesAppear(parttab) ELSE parttab
    /\ Goto("ens_blkid")
    /\ UNCHANGED <<disktab, mounts, disk, sys_disk_mps, parts, todo, region, part_path,
                   raised, calls, fails, fast, fixedVars>>

\* lines 306-308: settle once more and test again
SettleAndRecheck ==
    /\ pc = "settle2"
    /\ \E appear \in BOOLEAN :
         LET pt == IF appear THEN NodesAppear(parttab) ELSE parttab
         IN  /\ parttab' = pt
             /\ IF PathExistsIn(pt, part_path) THEN Goto("ens_blkid") ELSE Abort("not_ready")
    /\ UNCHANGED <<disktab, mounts, disk, sys_disk_mps, parts, todo, region, part_path,
                   raised, calls, fails, fast, fixedVars>>

\* ensure_ext4_persistence, lines 229-231: blkid <part> (check=False) and
\* the decision to keep the filesystem
EnsureCheck(at, keep, format) ==
    /\ pc = at
    /\ \E ok \in BOOLEAN :
         LET blk == IF ok THEN BlkidOne(part_path) ELSE <<>>
         IN  /\ Failed("blkid", ok)
             /\ IF AlreadyPersistence(blk) THEN Goto(keep) ELSE Goto(format)
    /\ UNCHANGED <<worldVars, disk, sys_disk_mps, parts, todo, region, part_path, raised,
                   calls, fast, fixedVars>>

\* a partition as mkfs.ext4 -F -L persistence leaves it
Formatted(r) ==
    [r EXCEPT !.fstype = W_ext4, !.label = W_persistence, !.conf = "absent", !.data = FALSE]

\* ensure_ext4_persistence, line 234: mkfs.ext4 -F -L persistence <part>
\* (mkfs refuses a mounted partition)
Mkfs(at, next) ==
    /\ pc = at
    /\ \E ok \in BOOLEAN :
         /\ ok => part_path \in DOMAIN parttab /\ ~IsMounted(part_path)
         /\ calls' = Append(calls, Call("mkfs", part_path, "", ok))
         /\ IF ok THEN Goto(next) /\ parttab' = [parttab EXCEPT ![part_path] = Formatted(@)]
            ELSE Abort("tool") /\ UNCHANGED parttab
    /\ UNCHANGED <<disktab, mounts, disk, sys_disk_mps, parts, todo, region, part_path,
                   raised, fails, fast, fixedVars>>

\* main, line 311
EnsureP3 == EnsureCheck("ens_blkid", "mw_mount", "mkfs")

FormatP3 == Mkfs("mkfs", "settle3")

\* ensure_ext4_persistence, line 235
SettleAfterMkfs == Settle("settle3", "mw_mount")

\* mount_and_write_conf, lines 238-240: mkdir and mount <part> MOUNT_POINT
\* (mount needs a filesystem on the partition)
Mount ==
    /\ pc = "mw_mount"
    /\ \E ok \in BOOLEAN :
         /\ ok => part_path \in DOMAIN parttab /\ parttab[part_path].fstype # <<>>
         /\ calls' = Append(calls, Call("mount", part_path, MOUNT_POINT, ok))
         /\ IF ok THEN Goto("mw_write")
                       /\ mounts' = Append(mounts, [dev |-> part_path, target |-> MOUNT_POINT])
            ELSE Abort("tool") /\ UNCHANGED mounts
    /\ UNCHANGED <<disktab, parttab, disk, sys_disk_mps, parts, todo, region, part_path,
                   raised, fails, fast, fixedVars>>

\* the device whose filesystem is seen under a mount target
DevAt(target) == mounts[TopMountIdx(target)].dev

\* mount_and_write_conf, lines 242-244: write_text of persistence.conf under
\* MOUNT_POINT, then sync, whose result is discarded (check=False).  A failed
\* write leaves the file as it was or truncated.
Write ==
    /\ pc = "mw_write"
    /\ \E ok \in BOOLEAN, truncated \in BOOLEAN :
         /\ ok => ~truncated /\ TopMountIdx(MOUNT_POINT) # 0
         /\ calls' = Append(calls, Call("write", IF TopMountIdx(MOUNT_POINT) # 0
                                                 THEN DevAt(MOUNT_POINT) ELSE <<>>,
                                        MOUNT_POINT, ok))
         /\ parttab' = IF TopMountIdx(MOUNT_POINT) = 0 \/ (~ok /\ ~truncated) THEN parttab
                       ELSE [parttab EXCEPT ![DevAt(MOUNT_POINT)].conf =
                                               IF ok THEN written_content ELSE ""]
         /\ raised' = ~ok
         /\ IF after_write(ok) = "mw_umount" THEN Goto("mw_umount") ELSE Abort("write")
    /\ UNCHANGED <<disktab, mounts, disk, sys_disk_mps, parts, todo, region, part_path,
                   fails, fast, fixedVars>>

\* mount_and_write_conf, line 246: umount MOUNT_POINT in the finally clause;
\* then the pending exception, or this command's own, ends the run, or main
\* returns (lines 294-295 and 316-317)
Umount ==
    /\ pc = "mw_umount"
    /\ \E ok \in BOOLEAN :
         /\ ok => CanUnmount(MOUNT_POINT)
         /\ calls' = Append(calls, Call("umount", <<>>, MOUNT_POINT, ok))
         /\ mounts' = IF ok THEN RemoveAt(mounts, TopMountIdx(MOUNT_POINT)) ELSE mounts
         /\ IF ~ok THEN Abort("tool")
            ELSE IF raised THEN Abort("write")
            ELSE Finish
    /\ UNCHANGED <<disktab, parttab, disk, sys_disk_mps, parts, todo, region, part_path,
                   raised, fails, fast, fixedVars>>

---------------------------------------------------------------------------
(* The machines a run starts on.  /dev/sda is the system disk (its second  *)
(* partition is mounted at /), /dev/sdb is a USB disk in one of several    *)
(* layouts, and /dev/sdc, when plugged in, is a second Kali USB disk that  *)
(* already has a persistence volume.                                       *)

W_root == <<"r", "o", "o", "t">>

PartRec(d, n, mib, fstype, label, partlabel, conf, data) ==
    [disk |-> d, num |-> n, size |-> mib * SectorsPerMiB,
     fstype |-> fstype, label |-> label, partlabel |-> partlabel,
     conf |-> conf, data |-> data, node |-> TRUE]

\* the kinds of third partition /dev/sdb may start with: a persistence
\* volume of an earlier run; an ext4 data partition; an ext4 data partition
\* whose GPT partition name is "persistence"; a partition with no filesystem
\* (and, for the check of ensure_ext4_persistence alone, a vfat partition
\* labelled "persistence")
P3Kinds == {"persist", "data", "gptname", "raw"}

\* extent of partition n of /dev/sdb, in MiB: an 8 GiB image partition, a
\* 4 MiB one, a 4 GiB one, then 100 MiB ones
SdbStart(n) == IF n = 1 THEN 1 ELSE IF n = 2 THEN 8193 ELSE IF n = 3 THEN 8197
               ELSE 12293 + 100 * (n - 4)
SdbEnd(n) == IF n = 1 THEN 8193 ELSE IF n = 2 THEN 8197 ELSE IF n = 3 THEN 12293
             ELSE 12393 + 100 * (n - 4)

SdbPart(n, kind) ==
    IF n = 1 THEN PartRec(sdb, 1, 8192, W_iso9660, W_KaliLive, <<>>, "absent", TRUE)
    ELSE IF n = 2 THEN PartRec(sdb, 2, 4, W_vfat, <<>>, <<>>, "absent", TRUE)
    ELSE IF n > 3 \/ kind = "data"
         THEN PartRec(sdb, n, SdbEnd(n) - SdbStart(n), W_ext4, W_data, <<>>, "absent", TRUE)
    ELSE IF kind = "persist"
         THEN PartRec(sdb, 3, 4096, W_ext4, W_persistence, <<>>, CONF_CONTENT, TRUE)
    ELSE IF kind = "gptname"
         THEN PartRec(sdb, 3, 4096, W_ext4, W_data, W_persistence, "absent", TRUE)
    ELSE IF kind = "wrongtype"
         THEN PartRec(sdb, 3, 4096, W_vfat, W_persistence, <<>>, "absent", TRUE)
    ELSE PartRec(sdb, 3, 4096, <<>>, <<>>, <<>>, "absent", FALSE)

\* the sets of partition numbers /dev/sdb may start with
SdbNumSets == {1..k : k \in 0..MaxExisting} \cup {{1, 3}}

\* the spans of the free space after the last partition: none, too small
\* once aligned, just enough, plenty
TrailSpans == {0, 32 * MiB + 50, 33 * MiB, 4096 * MiB}

LastEnd(nums) == IF nums = {} THEN 1 ELSE SdbEnd(CHOOSE n \in nums : \A m \in nums : m <= n)

\* parted's report for /dev/sdb
SdbLines(nums, trail) ==
    LET top == IF nums = {} THEN 0 ELSE CHOOSE n \in nums : \A m \in nums : m <= n
    IN  <<FreeLn(2, 1 * MiB)>>
        \o [n \in 1..top |-> IF n \in nums THEN PartLn(SdbStart(n) * MiB, SdbEnd(n) * MiB)
                             ELSE FreeLn(SdbStart(n) * MiB, SdbEnd(n) * MiB)]
        \o (IF trail = 0 THEN <<>>
            ELSE <<FreeLn(LastEnd(nums) * MiB, LastEnd(nums) * MiB + trail)>>)

SdaParts ==
    { PartRec(sda, 1, 512, W_vfat, <<>>, <<>>, "absent", TRUE),
      PartRec(sda, 2, 102400, W_ext4, W_root, <<>>, "absent", TRUE) }

SdcParts ==
    { PartRec(sdc, 1, 8192, W_iso9660, W_KaliLive, <<>>, "absent", TRUE),
      PartRec(sdc, 2, 4, W_vfat, <<>>, <<>>, "absent", TRUE),
      PartRec(sdc, 3, 4096, W_ext4, W_persistence, <<>>, CONF_CONTENT, TRUE) }

\* the partition table holding a set of partition records
TableOf(recs) ==
    [pp \in {KernelPartPath(r.disk, r.num) : r \in recs} |->
       CHOOSE r \in recs : KernelPartPath(r.disk, r.num) = pp]

RootMount == [dev |-> KernelPartPath(sda, 2), target |-> "/"]

\* what may be mounted besides / when the run starts: nothing, or one
\* partition of a USB disk, at a desktop's mount target or at MOUNT_POINT
OneMount(dev, target) == <<[dev |-> dev, target |-> target]>>

PreMounts(pt) ==
    {<<>>} \cup
    { OneMount(m[1], m[2]) :
        m \in { x \in { <<KernelPartPath(sdb, 1), "/media/usb">>,
                        <<KernelPartPath(sdb, 1), LABEL_TARGET>>,
                        <<KernelPartPath(sdb, 3), "/media/usb">>,
                        <<KernelPartPath(sdb, 3), MOUNT_POINT>>,
                        <<KernelPartPath(sdc, 3), "/media/usb">> } :
                  x[1] \in DOMAIN pt /\ pt[x[1]].fstype # <<>> } }

Devices == {NoPath, sda, sdb, sdx}

ProgStart(first) ==
    /\ pc = first
    /\ disk = NoPath
    /\ sys_disk_mps = <<>>
    /\ parts = <<>>
    /\ todo = <<>>
    /\ region = NoRegion
    /\ part_path = NoPath
    /\ raised = FALSE
    /\ exit_code = None
    /\ error = None
    /\ calls = <<>>
    /\ fails = {}
    /\ fast = FALSE
    /\ disktab0 = disktab
    /\ parttab0 = parttab
    /\ mounts0 = mounts
    /\ mount_point = <<TargetText(MOUNT_POINT)>>

Init ==
    /\ \E nums \in SdbNumSets, kind \in P3Kinds, trail \in TrailSpans, withSdc \in BOOLEAN :
         /\ 3 \notin nums => kind = "raw"
         /\ disktab = [d \in {sda, sdb} \cup (IF withSdc THEN {sdc} ELSE {}) |->
                         IF d = sda
                         THEN [size |-> 262144 * SectorsPerMiB, rm |-> 0,
                               lines |-> <<PartLn(1 * MiB, 513 * MiB),
                                           PartLn(513 * MiB, 102913 * MiB),
                                           FreeLn(102913 * MiB, 262144 * MiB)>>]
                         ELSE IF d = sdb
                         THEN [size |-> Sectors(LastEnd(nums) * MiB + trail),
                               rm |-> 1, lines |-> SdbLines(nums, trail)]
                         ELSE [size |-> 12293 * SectorsPerMiB, rm |-> 1,
                               lines |-> <<PartLn(1 * MiB, 8193 * MiB),
                                           PartLn(8193 * MiB, 8197 * MiB),
                                           PartLn(8197 * MiB, 12293 * MiB)>>]]
         /\ parttab = TableOf(SdaParts \cup {SdbPart(n, kind) : n \in nums}
                                       \cup (IF withSdc THEN SdcParts ELSE {}))
    /\ \E pre \in PreMounts(parttab) : mounts = <<RootMount>> \o pre
    /\ device \in Devices
    /\ ProgStart("lsblk1")
    /\ arg = None
    /\ ret = NotYet

Next ==
    \/ Inventory
    \/ SystemDiskCheck
    \/ DiskIsMounted
    \/ UnmountList
    \/ UnmountOne
    \/ Reinventory
    \/ CheckExisting
    \/ FreeRegion
    \/ Mkpart
    \/ SettleAfterMkpart
    \/ ResolveP3
    \/ SettleAndRecheck
    \/ EnsureP3
    \/ FormatP3
    \/ SettleAfterMkfs
    \/ Mount
    \/ Write
    \/ Umount

Spec == Init /\ [][Next]_vars

\* Every command the program waits for returns, so the run always takes its
\* next step.
FairSpec == Spec /\ WF_vars(Next)

---------------------------------------------------------------------------
(* Checks of the pure functions: the input is drawn from a bounded set,    *)
(* one action applies the function.  No machine is involved.               *)

NoMachine(first) ==
    /\ disktab = <<>>
    /\ parttab = <<>>
    /\ mounts = <<>>
    /\ device = NoPath
    /\ ProgStart(first)

Apply(at, result, next) ==
    /\ pc = at
    /\ ret' = result
    /\ pc' = next
    /\ UNCHANGED <<worldVars, device, disk, sys_disk_mps, parts, todo, region, part_path,
                   raised, exit_code, error, histVars, arg, mount_point>>

SeqsUpTo(S, n) == UNION {[1..k -> S] : k \in 0..n}

\* --- partition_path ---

\* Largest partition number tried.
MaxPartNum == 12

PathDisks == {sda, sdb, sdc, nvme0n1, mmcblk0, loop0, md0, vda, nvmedisk, sdb \o <<"/">>}

PathInit ==
    /\ NoMachine("path_call")
    /\ arg \in [disk : PathDisks, n : 1..MaxPartNum]
    /\ ret = NotYet

PathCall == Apply("path_call", partition_path(arg.disk, arg.n), "path_done")

SpecPath == PathInit /\ [][PathCall]_vars

\* --- get_free_region_mib ---

\* Longest parted report tried.
MaxRegions == 3

\* report lines tried: short and long extents, a span just below and just at
\* the threshold, two extents with the same end, a late extent that is too
\* short, and a partition line
ReportLines ==
    { FreeLn(0, 10 * MiB), FreeLn(20 * MiB, 25 * MiB), FreeLn(30 * MiB, 90 * MiB),
      FreeLn(20 * MiB, 100 * MiB), FreeLn(2, 32 * MiB + 1), FreeLn(2, 32 * MiB + 2),
      FreeLn(95 * MiB, 120 * MiB), FreeLn(60 * MiB, 100 * MiB),
      PartLn(0, 110 * MiB) }

FreeInit ==
    /\ NoMachine("free_call")
    /\ arg \in SeqsUpTo(ReportLines, MaxRegions)
    /\ ret = NotYet

FreeCall == Apply("free_call", get_free_region_mib(arg), "free_done")

SpecFree == FreeInit /\ [][FreeCall]_vars

\* --- find_kali_usb_candidate ---

\* Most disks in an inventory tried.
MaxDisks == 3

Child(sectors, fstype, label) ==
    [type |-> "part", size |-> sectors, fstype |-> fstype, label |-> label]

KidsStd == <<Child(5 * SectorsPerGiB, W_iso9660, W_KaliLive), Child(4 * SectorsPerMiB, W_vfat, <<>>)>>

\* the disks an inventory is made of: Kali sticks (removable or not, at the
\* size limits, recognised by label only, with a third partition), and
\* disks that miss one of the conditions
DiskShapes ==
    { [type |-> "disk", size |-> 16 * SectorsPerGiB, rm |-> 1, children |-> KidsStd],
      [type |-> "disk", size |-> 16 * SectorsPerGiB, rm |-> 0, children |-> KidsStd],
      [type |-> "disk", size |-> 8 * SectorsPerGiB, rm |-> 1,
       children |-> <<Child(4 * SectorsPerGiB, W_ext4, W_KALI), Child(1 * SectorsPerMiB, <<>>, <<>>)>>],
      [type |-> "disk", size |-> 32 * SectorsPerGiB, rm |-> 0,
       children |-> <<Child(8 * SectorsPerGiB, W_fat32, <<>>), Child(8 * SectorsPerMiB, W_vfat, <<>>),
                      Child(4096 * SectorsPerMiB, W_ext4, W_persistence)>>],
      [type |-> "disk", size |-> 8 * SectorsPerGiB - 1, rm |-> 1, children |-> KidsStd],
      [type |-> "disk", size |-> 16 * SectorsPerGiB, rm |-> 1,
       children |-> <<Child(5 * SectorsPerGiB, W_iso9660, W_KaliLive), Child(8 * SectorsPerMiB + 1, W_vfat, <<>>)>>],
      [type |-> "disk", size |-> 16 * SectorsPerGiB, rm |-> 1,
       children |-> <<Child(5 * SectorsPerGiB, W_ext4, W_data), Child(4 * SectorsPerMiB, W_vfat, <<>>)>>],
      [type |-> "disk", size |-> 16 * SectorsPerGiB, rm |-> 1,
       children |-> <<Child(5 * SectorsPerGiB, W_iso9660, W_KaliLive)>>],
      [type |-> "rom", size |-> 16 * SectorsPerGiB, rm |-> 1, children |-> KidsStd] }

Letters == <<"a", "b", "c", "d", "e", "f", "g", "h", "i", "j", "k", "l", "m", "n">>

\* the inventory of disks /dev/sda, /dev/sdb, ... with the given shapes
TreeOf(shapes) ==
    [i \in 1..Len(shapes) |->
       [path |-> DEV \o <<"s", "d", Letters[i]>>, type |-> shapes[i].type,
        size |-> shapes[i].size, rm |-> shapes[i].rm, children |-> shapes[i].children]]

\* Most disks in an inventory of Kali sticks only, tried to reach the limit
\* of the ambiguity message's list.
MaxSticks == 11

StickShapes == {d \in DiskShapes : d.children = KidsStd /\ d.type = "disk"
                                     /\ d.size = 16 * SectorsPerGiB}

SelInit ==
    /\ NoMachine("sel_call")
    /\ arg \in {TreeOf(sh) : sh \in SeqsUpTo(DiskShapes, MaxDisks)
                                     \cup SeqsUpTo(StickShapes, MaxSticks)}
    /\ ret = NotYet

SelCall == Apply("sel_call", find_kali_usb_candidate(arg), "sel_done")

SpecSel == SelInit /\ [][SelCall]_vars

\* --- ensure_ext4_persistence, called twice in a row on /dev/sdb3 ---

FmtKinds == P3Kinds \cup {"wrongtype"}

FmtInit ==
    /\ \E kind \in FmtKinds, at \in {"nowhere", "/media/usb", MOUNT_POINT} :
         /\ at # "nowhere" => kind # "raw"
         /\ disktab = [d \in {sdb} |-> [size |-> 16 * SectorsPerGiB, rm |-> 1,
                                         lines |-> SdbLines({1, 2, 3}, 0)]]
         /\ parttab = TableOf({SdbPart(n, kind) : n \in {1, 2, 3}})
         /\ mounts = IF at = "nowhere" THEN <<>> ELSE OneMount(KernelPartPath(sdb, 3), at)
    /\ device = NoPath
    /\ pc = "t1_blkid"
    /\ disk = sdb
    /\ sys_disk_mps = <<>>
    /\ parts = <<>>
    /\ todo = <<>>
    /\ region = NoRegion
    /\ part_path = KernelPartPath(sdb, 3)
    /\ raised = FALSE
    /\ exit_code = None
    /\ error = None
    /\ calls = <<>>
    /\ fails = {}
    /\ fast = FALSE
    /\ disktab0 = disktab
    /\ parttab0 = parttab
    /\ mounts0 = mounts
    /\ arg = None
    /\ ret = NotYet
    /\ mount_point = <<TargetText(MOUNT_POINT)>>

FirstCheck == EnsureCheck("t1_blkid", "t2_blkid", "t1_mkfs")
FirstMkfs == Mkfs("t1_mkfs", "t1_settle")
FirstSettle == Settle("t1_settle", "t2_blkid")
SecondCheck == EnsureCheck("t2_blkid", "t_done", "t2_mkfs")
SecondMkfs == Mkfs("t2_mkfs", "t2_settle")
SecondSettle == Settle("t2_settle", "t_done")

FmtNext ==
    \/ FirstCheck
    \/ FirstMkfs
    \/ FirstSettle
    \/ SecondCheck
    \/ SecondMkfs
    \/ SecondSettle

SpecFmt == FmtInit /\ [][FmtNext]_vars

---------------------------------------------------------------------------
(* The standalone config writer: main of kali_persistence_setup_b.py,      *)
(* lines 101-126, one action per external command.  The run is modelled    *)
(* from line 107 on: is_root has passed.  Line 117 declares MOUNT_POINT    *)
(* global after line 116 has used the name; the statement covers the whole *)
(* function body, and CPython from 3.6 on refuses to compile such a file   *)
(* (SyntaxError), so the first step is the interpreter loading the file.   *)
(* Any exception inside the try block reaches lines 124-126: exit status 1. *)

\* findmnt -rn -S <device> -o TARGET: the targets the device is mounted at,
\* one per line, in raw format
FindmntTargets(dev) ==
    [i \in 1..Len(MountTargets(dev)) |-> RawEscape(TargetText(MountTargets(dev)[i]))]

\* the directory a text names: a mount target of the machine, or none
DirNamed(text) == IF Len(text) = 1 THEN TargetNamed(text[1]) ELSE NO_TARGET

\* find_persistence_device, lines 49-61: the device of the first blkid line
\* carrying both needles, NoPath when there is none
find_persistence_device(out) ==
    LET candidates == SelectSeq(out, LAMBDA line :
                          Contains(line, NEEDLE_LABEL) /\ Contains(line, NEEDLE_TYPE))
    IN  IF candidates = <<>> THEN NoPath ELSE BeforeColon(candidates[1])

\* the interpreter compiles the file: rejected at line 117, or accepted
\* with MOUNT_POINT global throughout main
WriterLoad ==
    /\ pc = "b_load"
    /\ \E accepted \in BOOLEAN : IF accepted THEN Goto("b_find") ELSE Abort("syntax")
    /\ UNCHANGED <<worldVars, disk, sys_disk_mps, parts, todo, region, part_path, raised,
                   calls, fails, fast, fixedVars>>

\* main, line 108, and find_persistence_device, lines 35-61: blkid failing
\* ends the run at once (sys.exit), no candidate raises RuntimeError
FindPersistenceDevice ==
    /\ pc = "b_find"
    /\ \E ok \in BOOLEAN :
         /\ Failed("blkid_all", ok)
         /\ IF ~ok THEN Abort("tool") /\ UNCHANGED part_path
            ELSE IF find_persistence_device(BlkidAll) = NoPath
                 THEN Abort("no_device") /\ UNCHANGED part_path
            ELSE Goto("b_is_mounted") /\ part_path' = find_persistence_device(BlkidAll)
    /\ UNCHANGED <<worldVars, disk, sys_disk_mps, parts, todo, region, raised,
                   calls, fast, fixedVars>>

\* mount_device, lines 70-73, and is_mounted, lines 64-66: findmnt with
\* check=False; any output counts as mounted
IsMountedQuery ==
    /\ pc = "b_is_mounted"
    /\ \E ok \in BOOLEAN :
         /\ Failed("query", ok)
         /\ IF ok /\ FindmntTargets(part_path) # <<>> THEN Goto("b_already")
            ELSE Goto("b_mount")
    /\ UNCHANGED <<worldVars, disk, sys_disk_mps, parts, todo, region, part_path, raised,
                   calls, fast, fixedVars>>

\* mount_device, lines 74-76: findmnt once more, with check=True, to report
\* where the device is mounted
AlreadyMounted ==
    /\ pc = "b_already"
    /\ \E ok \in BOOLEAN :
         /\ Failed("query", ok)
         /\ IF ok THEN Goto("b_target") ELSE Abort("tool")
    /\ UNCHANGED <<worldVars, disk, sys_disk_mps, parts, todo, region, part_path, raised,
                   calls, fast, fixedVars>>

\* mount_device, line 78: mount <device> MOUNT_POINT
MountDevice ==
    /\ pc = "b_mount"
    /\ \E ok \in BOOLEAN :
         /\ ok => DirNamed(mount_point) # NO_TARGET
         /\ calls' = Append(calls, Call("mount", part_path, DirNamed(mount_point), ok))
         /\ IF ok THEN Goto("b_target")
                       /\ mounts' = Append(mounts, [dev |-> part_path,
                                                    target |-> DirNamed(mount_point)])
            ELSE Abort("tool") /\ UNCHANGED mounts
    /\ UNCHANGED <<disktab, parttab, disk, sys_disk_mps, parts, todo, region, part_path,
                   raised, fails, fast, device, disktab0, parttab0, mounts0, arg, ret,
                   mount_point>>

\* main, lines 115-118: findmnt with check=False; when it prints something
\* other than MOUNT_POINT, MOUNT_POINT becomes what it printed
Retarget ==
    /\ pc = "b_target"
    /\ \E ok \in BOOLEAN :
         LET target == IF ok THEN FindmntTargets(part_path) ELSE <<>>
         IN  /\ Failed("query", ok)
             /\ mount_point' = IF target # <<>> /\ target # mount_point THEN target
                               ELSE mount_point
    /\ Goto("b_write")
    /\ UNCHANGED <<worldVars, disk, sys_disk_mps, parts, todo, region, part_path, raised,
                   calls, fast, device, disktab0, parttab0, mounts0, arg, ret>>

\* write_conf, lines 83-84: write_text of persistence.conf under MOUNT_POINT.
\* A failed write leaves the file as it was or truncated, and raises.
WriteConf ==
    /\ pc = "b_write"
    /\ \E ok \in BOOLEAN, truncated \in BOOLEAN :
         LET dir == DirNamed(mount_point)
             onDev == dir # NO_TARGET /\ TopMountIdx(dir) # 0
         IN  /\ ok => ~truncated /\ dir # NO_TARGET
             /\ truncated => dir # NO_TARGET
             /\ calls' = Append(calls, Call("write", IF onDev THEN DevAt(dir) ELSE <<>>,
                                            dir, ok))
             /\ parttab' = IF ~onDev \/ (~ok /\ ~truncated) THEN parttab
                           ELSE [parttab EXCEPT ![DevAt(dir)].conf =
                                                   IF ok THEN "/ union\n" ELSE ""]
             /\ IF ok THEN Goto("b_sync") ELSE Abort("write")
    /\ UNCHANGED <<disktab, mounts, disk, sys_disk_mps, parts, todo, region, part_path,
                   raised, fails, fast, fixedVars>>

\* write_conf, line 86: sync, with check=True
Sync ==
    /\ pc = "b_sync"
    /\ \E ok \in BOOLEAN :
         /\ Failed("sync", ok)
         /\ IF ok THEN Goto("b_unmount") ELSE Abort("tool")
    /\ UNCHANGED <<worldVars, disk, sys_disk_mps, parts, todo, region, part_path, raised,
                   calls, fast, fixedVars>>

\* unmount_device, lines 91-98: findmnt with check=False; the unmount is run
\* only when it prints exactly MOUNT_POINT, else main returns (line 123)
UnmountQuery ==
    /\ pc = "b_unmount"
    /\ \E ok \in BOOLEAN :
         LET target == IF ok THEN FindmntTargets(part_path) ELSE <<>>
         IN  /\ Failed("query", ok)
             /\ IF target = mount_point THEN Goto("b_umount") ELSE Finish
    /\ UNCHANGED <<worldVars, disk, sys_disk_mps, parts, todo, region, part_path, raised,
                   calls, fast, fixedVars>>

\* unmount_device, line 93: umount MOUNT_POINT, with check=True
UnmountDevice ==
    /\ pc = "b_umount"
    /\ \E ok \in BOOLEAN :
         /\ ok => CanUnmount(DirNamed(mount_point))
         /\ calls' = Append(calls, Call("umount", <<>>, DirNamed(mount_point), ok))
         /\ mounts' = IF ok THEN RemoveAt(mounts, TopMountIdx(DirNamed(mount_point)))
                      ELSE mounts
         /\ IF ok THEN Finish ELSE Abort("tool")
    /\ UNCHANGED <<disktab, parttab, disk, sys_disk_mps, parts, todo, region, part_path,
                   raised, fails, fast, fixedVars>>

\* the machines the writer starts on: /dev/sdb with three partitions, the
\* third of any kind, /dev/sdc plugged in or not, one partition mounted or none
WriterInit ==
    /\ \E kind \in FmtKinds, withSdc \in BOOLEAN :
         /\ disktab = [d \in {sda, sdb} \cup (IF withSdc THEN {sdc} ELSE {}) |->
                         [size |-> 16 * SectorsPerGiB, rm |-> IF d = sda THEN 0 ELSE 1,
                          lines |-> SdbLines({1, 2, 3}, 0)]]
         /\ parttab = TableOf(SdaParts \cup {SdbPart(n, kind) : n \in {1, 2, 3}}
                                       \cup (IF withSdc THEN SdcParts ELSE {}))
    /\ \E pre \in PreMounts(parttab) : mounts = <<RootMount>> \o pre
    /\ device = NoPath
    /\ ProgStart("b_load")
    /\ arg = None
    /\ ret = NotYet

WriterNext ==
    \/ WriterLoad
    \/ FindPersistenceDevice
    \/ IsMountedQuery
    \/ AlreadyMounted
    \/ MountDevice
    \/ Retarget
    \/ WriteConf
    \/ Sync
    \/ UnmountQuery
    \/ UnmountDevice

SpecWriter == WriterInit /\ [][WriterNext]_vars

---------------------------------------------------------------------------
(* Claims about the pure functions.                                        *)

\* p is a prefix of s (or equal to it)
PrefixOf(p, s) == \E k \in 0..Len(s) : SubSeq(s, 1, k) = p

\* the reference definition of a qualifying disk (C4): size >= 8 GiB, at
\* least two children, a child of 4..8 GiB with an allow-listed filesystem
\* or a label containing "kali" in any case, and a child of 1..8 MiB
RefQualifies(d) ==
    /\ d.type = "disk"
    /\ d.size >= 8 * SectorsPerGiB
    /\ Len(d.children) >= 2
    /\ \E i \in 1..Len(d.children) :
         /\ d.children[i].size \in (4 * SectorsPerGiB)..(8 * SectorsPerGiB)
         /\ \/ d.children[i].fstype \in {W_iso9660, W_vfat, W_fat, W_fat32}
            \/ \E k \in 1..Len(d.children[i].label) :
                 /\ k + 3 <= Len(d.children[i].label)
                 /\ d.children[i].label[k] \in {"k", "K"}
                 /\ d.children[i].label[k + 1] \in {"a", "A"}
                 /\ d.children[i].label[k + 2] \in {"l", "L"}
                 /\ d.children[i].label[k + 3] \in {"i", "I"}
    /\ \E i \in 1..Len(d.children) :
         d.children[i].size \in (1 * SectorsPerMiB)..(8 * SectorsPerMiB)

RefScore(d) == IF d.rm = 1 THEN 3 ELSE 2

\* the qualifying disks of the inventory, and those with the maximum score
Qualifying == {i \in 1..Len(arg) : RefQualifies(arg[i])}
Tied == {i \in Qualifying : \A j \in Qualifying : RefScore(arg[j]) <= RefScore(arg[i])}

Before(i) ==
    {j \in Qualifying : \/ RefScore(arg[j]) > RefScore(arg[i])
                        \/ (RefScore(arg[j]) = RefScore(arg[i]) /\ j < i)}

C4_SelectionMatchesReference ==
    pc = "sel_done" =>
        /\ ret.path # NoPath => Qualifying # {}
        /\ Qualifying = {} => ret.path = NoPath /\ ret.err = "none"
        /\ \A i \in Tied : Tied = {i} => ret.path = arg[i].path /\ ret.err = None

\* C4's case: one removable candidate is returned although a non-removable
\* and a non-qualifying disk are in the inventory too.
C4_Witness ==
    /\ pc = "sel_done"
    /\ Cardinality(Qualifying) >= 2
    /\ Cardinality(Tied) = 1
    /\ Len(arg) > Cardinality(Qualifying)
    /\ ret.path # NoPath
    /\ \E i \in Tied : arg[i].rm = 1 /\ arg[i].size = 8 * SectorsPerGiB

\* the extents of the report that are usable (C5): free, span >= 32 MiB
Usable == {i \in 1..Len(arg) : arg[i].free /\ arg[i].e - arg[i].s >= 32 * MiB}

\* C5: get_free_region_mib returns the usable extent with the greatest end,
\* and returns none exactly when no extent is usable; an extent that ends
\* later but spans less than 32 MiB is never returned.
C5_LargestTrailingRegion ==
    pc = "free_done" =>
        /\ (ret = NoRegion) <=> (Usable = {})
        /\ ret # NoRegion =>
             /\ \E i \in Usable : ret = <<arg[i].s, arg[i].e>>
             /\ \A j \in Usable : arg[j].e <= ret[2]
             /\ ret[2] - ret[1] >= 32 * MiB

\* C5's case: an extent that ends later but is too short is passed over.
C5_Witness ==
    /\ pc = "free_done"
    /\ ret # NoRegion
    /\ \E j \in 1..Len(arg) : arg[j].free /\ arg[j].e > ret[2] /\ arg[j].e - arg[j].s < 32 * MiB

\* C7: for every disk path D and partition number N, partition_path(D, N) is
\* D + "p" + N when the trailing component of D ends in a digit (nvme0n1,
\* mmcblk0, and also loop0 or md0), and D + N otherwise.
C7_PathByTrailingDigit ==
    pc = "path_done" => ret = KernelPartPath(arg.disk, arg.n)

\* the mkfs commands issued so far
MkfsCalls == {i \in 1..Len(calls) : calls[i].op = "mkfs"}

\* C6: ensure_ext4_persistence issues no format and leaves the content alone
\* when the partition reports filesystem type ext4 and label "persistence";
\* in every other case (wrong type, wrong label, unformatted) it formats;
\* called twice in a row it formats at most once.  (Stated for the runs in
\* which blkid itself answers.)
C6_FormatUnlessExact ==
    LET r0 == parttab0[part_path]
        exact == r0.fstype = W_ext4 /\ r0.label = W_persistence
    IN  "blkid" \notin fails =>
            /\ pc = "t1_mkfs" => ~exact
            /\ pc = "t2_blkid" /\ calls = <<>> => exact /\ parttab = parttab0
            /\ Cardinality(MkfsCalls) <= 1
            /\ \A i \in MkfsCalls : calls[i].ok =>
                   /\ parttab[part_path].fstype = W_ext4
                   /\ parttab[part_path].label = W_persistence
                   /\ parttab[part_path].conf = "absent"
                   /\ ~parttab[part_path].data

---------------------------------------------------------------------------
(* Claims about the orchestrator.                                          *)

Ops(ops) == {i \in 1..Len(calls) : calls[i].op \in ops}

\* a partition that is ext4 and labelled "persistence" existed at the start
HadPersist0 ==
    \E q \in DOMAIN parttab0 :
        parttab0[q].fstype = W_ext4 /\ parttab0[q].label = W_persistence

\* the stages of the slow path: partition creation, resolution of
\* partition 3 and formatting
SlowStages ==
    {"parted_print", "mkpart", "settle1", "p3_check", "settle2", "ens_blkid", "mkfs", "settle3"}

\* the commands of the config-write stage all succeeded
ConfigWritten ==
    /\ \E i \in Ops({"mount"}) : calls[i].ok
    /\ \E i \in Ops({"write"}) : calls[i].ok
    /\ \E i \in Ops({"umount"}) : calls[i].ok

\* C1: in every run that starts with an ext4 partition labelled
\* "persistence", no parted mkpart and no mkfs.ext4 is ever invoked and no
\* stage of the slow path is entered; the run goes to the config-write stage
\* on such a partition and ends with exit status 0 (when the commands of that
\* stage succeed).  Stated for the runs in which no command other than the
\* program's two blkid lookups has failed.
C1_FastPathAlways ==
    HadPersist0 /\ fails \subseteq {"blkid_all", "blkid"} =>
        /\ Ops({"mkpart", "mkfs"}) = {}
        /\ pc \notin SlowStages
        /\ pc \in {"mw_mount", "mw_write", "mw_umount"} =>
               /\ fast
               /\ parttab0[part_path].fstype = W_ext4
               /\ parttab0[part_path].label = W_persistence
        /\ pc = "done" /\ ConfigWritten => exit_code = 0

\* the device the root filesystem is on
RootDev0 ==
    LET at == {k \in 1..Len(mounts0) : mounts0[k].target = "/"}
    IN  IF at = {} THEN NoPath ELSE mounts0[CHOOSE k \in at : TRUE].dev

\* C2: whenever the resolved disk path is a prefix of (or equal to) the path
\* of the device the root filesystem is on, the run aborts at the guard with
\* a nonzero exit status, and no unmount, partition creation, format, mount
\* or file write has been issued.
C2_SystemDiskNeverTouched ==
    (/\ pc \notin {"lsblk1", "findmnt"}
     /\ disk # NoPath
     /\ RootDev0 # NoPath
     /\ PrefixOf(disk, RootDev0))
        => /\ pc = "done"
           /\ exit_code = 1
           /\ calls = <<>>
           /\ parttab = parttab0
           /\ mounts = mounts0

\* C8: in every execution of mount_and_write_conf, if the mount succeeded
\* then an unmount of MOUNT_POINT is issued before the function is left,
\* whether the write succeeded or failed; if the mount failed, neither a
\* write nor an unmount is issued.
C8_UnmountAfterMount ==
    \A i \in Ops({"mount"}) :
        IF calls[i].ok
        THEN \/ pc \in {"mw_write", "mw_umount"}
             \/ \E j \in Ops({"umount"}) : j > i /\ calls[j].at = MOUNT_POINT
        ELSE /\ pc = "done"
             /\ \A j \in Ops({"write", "umount"}) : j < i

\* C8's case: the write failed after a successful mount, and the unmount was
\* issued before the exception left the function.
C8_Witness ==
    /\ pc = "done"
    /\ exit_code = 1
    /\ \E i \in Ops({"mount"}), j \in Ops({"write"}), k \in Ops({"umount"}) :
         /\ i < j
         /\ j < k
         /\ calls[i].ok
         /\ ~calls[j].ok
         /\ calls[k].at = MOUNT_POINT

\* C9: if the persistence device was already mounted when the config-write
\* stage began, the stage issues no mount (it writes under the existing
\* target and leaves that mount alone).  At the write step the stage's own
\* mount, if any, is the last entry of the mount table, so the device was
\* mounted before exactly if it has an earlier entry.  Stated for the runs
\* in which every query has answered.
C9_NoMountWhenAlreadyMounted ==
    (/\ pc = "mw_write"
     /\ fails = {}
     /\ \E k \in 1..(Len(mounts) - 1) : mounts[k].dev = part_path)
        => calls[Len(calls)].op # "mount"

\* the free extent after the last partition of /dev/sdb at the start
Trailing0 ==
    LET lines == disktab0[sdb].lines
    IN  IF lines # <<>> /\ lines[Len(lines)].free
        THEN <<lines[Len(lines)].s, lines[Len(lines)].e>> ELSE NoRegion

\* C10's starting state: /dev/sdb, of at least 8 GiB, is the target; it has
\* exactly two partitions, an iso-like one and a tiny one, and at least
\* 33 MiB free after them; nothing but / is mounted; no persistence volume
\* exists
Fresh0 ==
    /\ device \in {NoPath, sdb}
    /\ sdc \notin DOMAIN disktab0
    /\ {q \in DOMAIN parttab0 : parttab0[q].disk = sdb}
           = {KernelPartPath(sdb, 1), KernelPartPath(sdb, 2)}
    /\ disktab0[sdb].size >= 8 * SectorsPerGiB
    /\ Trailing0 # NoRegion
    /\ Trailing0[2] - Trailing0[1] >= 33 * MiB
    /\ mounts0 = <<RootMount>>
    /\ ~HadPersist0

\* every external command of the run succeeded, and the device nodes of all
\* partitions are visible
AllOk ==
    /\ fails = {}
    /\ \A i \in 1..Len(calls) : calls[i].ok
    /\ \A q \in DOMAIN parttab : parttab[q].node

\* C10's final state
Prepared ==
    LET p3 == KernelPartPath(sdb, 3)
    IN  /\ exit_code = 0
        /\ disk = sdb
        /\ p3 \in DOMAIN parttab
        /\ p3 \notin DOMAIN parttab0
        /\ region # NoRegion
        /\ Trailing0[1] <= region[1]
        /\ region[1] < region[2]
        /\ region[2] <= Trailing0[2]
        /\ parttab[p3].size = Sectors(region[2] - region[1])
        /\ parttab[p3].fstype = <<"e", "x", "t", "4">>
        /\ parttab[p3].label = <<"p", "e", "r", "s", "i", "s", "t", "e", "n", "c", "e">>
        /\ parttab[p3].conf = "/ union\n"
        /\ mounts = mounts0
        /\ \A q \in DOMAIN parttab0 : parttab[q] = parttab0[q]

\* C10: a run that starts on a fresh stick (Fresh0) eventually ends, and if
\* every external command succeeded with the new device node visible after
\* settling, it ends with exit status 0, partition 3 made in the trailing
\* free region, ext4 with label "persistence", holding persistence.conf with
\* exactly "/ union" and a newline, and not left mounted.
C10_EndToEnd ==
    (pc = "lsblk1" /\ Fresh0) ~> (pc = "done" /\ (AllOk => Prepared))

\* C10's case: such a run has ended with every command successful.
C10_Witness ==
    /\ pc = "done"
    /\ Fresh0
    /\ AllOk
    /\ Prepared
    /\ Len(calls) = 5

\* the stage a mutating command belongs to: quiesce, partition creation,
\* format, config write
StageOf(op) ==
    IF op = "umount_f" THEN 1
    ELSE IF op = "mkpart" THEN 2
    ELSE IF op = "mkfs" THEN 3
    ELSE 4

\* the positions of a run before the end of quiesce, and those from the
\* partition-count gate up to the end of the format stage
ValidateStages == {"lsblk1", "findmnt", "is_mounted", "umount_list", "umount_each"}
PartitionStages == {"parted_print", "mkpart", "settle1"}
FormatStages == {"p3_check", "settle2", "ens_blkid", "mkfs", "settle3"}

\* C11: the stages run in the order validate (system-disk check, quiesce),
\* partition, format, config write: no mutating command of a stage is issued
\* before a command of an earlier stage; nothing but quiesce unmounts is
\* issued before quiesce is over; no format or config mount is issued while
\* partition creation or its settle is pending; no config mount is issued
\* while the format or its settle is pending; and a partition made by the
\* run is mounted only after its format succeeded.
C11_StageOrder ==
    /\ \A i, j \in 1..Len(calls) : i < j => StageOf(calls[i].op) <= StageOf(calls[j].op)
    /\ pc \in ValidateStages => Ops({"mkpart", "mkfs", "mount", "write", "umount"}) = {}
    /\ pc \in PartitionStages => Ops({"mkfs", "mount", "write", "umount"}) = {}
    /\ pc \in FormatStages => Ops({"mount", "write", "umount"}) = {}
    /\ Cardinality(Ops({"mkpart"})) <= 1
    /\ Cardinality(Ops({"mkfs"})) <= 1
    /\ Cardinality(Ops({"mount"})) <= 1
    /\ \A i \in Ops({"mount"}) :
           calls[i].dev \notin DOMAIN parttab0 =>
               \E j \in Ops({"mkfs"}) : j < i /\ calls[j].ok /\ calls[j].dev = calls[i].dev

\* C11's case: a run that went through all four stages.
C11_Witness ==
    /\ pc = "done"
    /\ exit_code = 0
    /\ Len(calls) = 6
    /\ calls[1].op = "umount_f"
    /\ calls[2].op = "mkpart"
    /\ calls[3].op = "mkfs"
    /\ calls[4].op = "mount"
    /\ calls[5].op = "write"
    /\ calls[6].op = "umount"

\* the partitions made by this run
Created == DOMAIN parttab \ DOMAIN parttab0

\* C12: when parted mkpart, mkfs.ext4 or the config mount fails, the run
\* ends there with exit status 1: the failed command is the last one issued
\* (no format, mount or write of a later stage follows), and nothing done
\* before is undone: every partition of the start still exists, a partition
\* made earlier in the run still exists, and a filesystem made earlier in the
\* run is still there.
C12_AbortWithoutRollback ==
    \A i \in Ops({"mkpart", "mkfs", "mount"}) :
        ~calls[i].ok =>
            /\ pc = "done"
            /\ exit_code = 1
            /\ i = Len(calls)
            /\ DOMAIN parttab0 \subseteq DOMAIN parttab
            /\ \A j \in Ops({"mkpart"}) :
                   calls[j].ok => /\ Cardinality(Created) = 1
                                  /\ \A q \in Created : parttab[q].disk = calls[j].dev
            /\ \A j \in Ops({"mkfs"}) :
                   calls[j].ok => /\ calls[j].dev \in DOMAIN parttab
                                  /\ parttab[calls[j].dev].fstype = W_ext4
                                  /\ parttab[calls[j].dev].label = W_persistence

\* C12's case: the config mount failed after a partition was made and
\* formatted in the same run.
C12_Witness ==
    /\ pc = "done"
    /\ exit_code = 1
    /\ Len(calls) = 3
    /\ calls[1].op = "mkpart" /\ calls[1].ok
    /\ calls[2].op = "mkfs" /\ calls[2].ok
    /\ calls[3].op = "mount" /\ ~calls[3].ok
    /\ Created # {}

\* C13: when findmnt (the root-filesystem query) or the system-wide blkid
\* (the persistence-volume lookup) returns non-success, the run ends with a
\* nonzero exit status and no partition creation, format, mount or write is
\* issued in it.  Stated for the runs in which no other query fails.
C13_FailedQueryAborts ==
    fails # {} /\ fails \subseteq {"findmnt", "blkid_all"} =>
        /\ Ops({"mkpart", "mkfs", "mount", "write"}) = {}
        /\ pc = "done" => exit_code = 1

\* the free extents of a parted report that span at least 32 MiB, and the
\* one of them that ends last (the qualifying free region of C14)
Roomy(lines) == {i \in 1..Len(lines) : lines[i].free /\ lines[i].e - lines[i].s >= 32 * MiB}
LastRoomy(lines) == CHOOSE i \in Roomy(lines) : \A j \in Roomy(lines) : lines[j].e <= lines[i].e

\* the region qualifies and at least 32 MiB remain after the 1 MiB alignment
RoomAfterAlign(lines) ==
    /\ Roomy(lines) # {}
    /\ lines[LastRoomy(lines)].e - (lines[LastRoomy(lines)].s + 1 * MiB) >= 32 * MiB

\* what C14 says of every state
C14_State ==
    /\ Cardinality(Ops({"mkpart"})) <= 1
    /\ pc = "mkpart" \/ Ops({"mkpart"}) # {} =>
           LET lines == disktab0[disk].lines
           IN  /\ RoomAfterAlign(lines)
               /\ region = <<lines[LastRoomy(lines)].s + 1 * MiB, lines[LastRoomy(lines)].e>>
    /\ \A i \in Ops({"mkpart"}) :
           calls[i].ok =>
               /\ \E k \in 1..Len(disktab[disk].lines) :
                      disktab[disk].lines[k] = [free |-> FALSE, s |-> region[1], e |-> region[2]]
               /\ \E q \in Created : /\ parttab[q].disk = disk
                                     /\ parttab[q].size = Sectors(region[2] - region[1])
    /\ error = "no_space" => Roomy(disktab0[disk].lines) = {} /\ Ops({"mkpart"}) = {}
    /\ error = "no_space_aligned" =>
           /\ Roomy(disktab0[disk].lines) # {}
           /\ ~RoomAfterAlign(disktab0[disk].lines)
           /\ Ops({"mkpart"}) = {}

\* what C14 says of every step of create_partition3
C14_Step ==
    /\ pc = "parted_print" /\ Roomy(disktab[disk].lines) = {} =>
           pc' = "done" /\ error' \in {"no_space", "tool"} /\ calls' = calls
    /\ pc = "parted_print" /\ Roomy(disktab[disk].lines) # {} /\ ~RoomAfterAlign(disktab[disk].lines) =>
           pc' = "done" /\ error' \in {"no_space_aligned", "tool"} /\ calls' = calls
    /\ pc = "parted_print" /\ RoomAfterAlign(disktab[disk].lines) =>
           (pc' = "mkpart" \/ (pc' = "done" /\ error' = "tool")) /\ calls' = calls
    /\ pc = "mkpart" =>
           /\ calls' = Append(calls, calls'[Len(calls')])
           /\ calls'[Len(calls')].op = "mkpart"
           /\ IF calls'[Len(calls')].ok THEN pc' = "settle1" ELSE pc' = "done" /\ error' = "tool"
    /\ pc = "settle1" => pc' = "p3_check" /\ calls' = calls

\* C14: create_partition3 issues parted mkpart at most once, and only when
\* a free region (start, end) of at least 32 MiB exists and
\* end - (start + 1) >= 32 MiB; the partition made spans exactly
\* [start + 1 MiB, end], and a settle follows.  When no region qualifies, or
\* fewer than 32 MiB remain after the alignment (span in [32, 33) MiB), it
\* signals the insufficient-space error and issues no mkpart.
C14_AlignedPartition == []C14_State /\ [][C14_Step]_vars

\* C14's case: the partition was made in a region of exactly 33 MiB, of
\* which 32 MiB are left after the alignment.
C14_Witness ==
    /\ pc = "settle1"
    /\ Ops({"mkpart"}) # {}
    /\ calls[Len(calls)].ok
    /\ region[2] - region[1] = 32 * MiB
    /\ Created # {}

\* the partitions of the target disk, now and at the start
OnDisk == {q \in DOMAIN parttab : parttab[q].disk = disk}
OnDisk0 == {q \in DOMAIN parttab0 : parttab0[q].disk = disk}

\* what C15 says of every state
C15_State ==
    /\ Cardinality(Ops({"mkpart"})) <= 1
    /\ pc \in PartitionStages \/ Ops({"mkpart"}) # {} => ~fast /\ Cardinality(OnDisk0) < 3
    /\ pc \in FormatStages /\ Ops({"mkpart"}) = {} => ~fast /\ Cardinality(OnDisk0) >= 3
    /\ disk # NoPath /\ Cardinality(OnDisk0) >= 3 =>
           /\ Ops({"mkpart"}) = {}
           /\ DOMAIN parttab = DOMAIN parttab0
           /\ disktab = disktab0

\* what C15 says of the step that leaves the existing-volume lookup
C15_Step ==
    pc = "blkid_all" /\ pc' # "mw_mount" =>
        IF Cardinality(OnDisk) < 3 THEN pc' = "parted_print" ELSE pc' = "p3_check"

\* C15: in every run that does not take the fast path, partition creation
\* is entered exactly when the target disk has fewer than 3 partitions after
\* quiesce, and parted mkpart is issued at most once; when the disk has 3 or
\* more partitions the partition table is not changed.
C15_PartitionCountGate == []C15_State /\ [][C15_Step]_vars

\* C15's case: the disk has three partitions, none a persistence volume, and
\* the run has gone past the gate without creating one.
C15_Witness ==
    /\ pc = "ens_blkid"
    /\ ~fast
    /\ Cardinality(OnDisk0) = 3
    /\ ~HadPersist0
    /\ fails = {}

\* the device node of a path exists, in the state before and after a step
NodeThere(path) == path \in DOMAIN parttab /\ parttab[path].node
NodeThereNext(path) == path \in DOMAIN parttab' /\ parttab'[path].node

\* what C16 says of every state
C16_State ==
    error = "not_ready" =>
        /\ pc = "done"
        /\ exit_code = 1
        /\ part_path = disk \o <<"3">>
        /\ ~NodeThere(part_path)
        /\ Ops({"mkfs", "mount", "write", "umount"}) = {}

\* what C16 says of the steps that resolve partition 3
C16_Step ==
    /\ pc = "p3_check" =>
           /\ part_path' = disk \o <<"3">>
           /\ IF NodeThere(disk \o <<"3">>) THEN pc' = "ens_blkid" ELSE pc' = "settle2"
           /\ calls' = calls
    /\ pc = "settle2" =>
           /\ IF NodeThereNext(part_path)
              THEN pc' = "ens_blkid" /\ error' = error
              ELSE pc' = "done" /\ error' = "not_ready" /\ exit_code' = 1
           /\ calls' = calls
           /\ part_path' = part_path
    /\ pc' = "settle2" => pc = "p3_check"

\* C16: when the expected path of partition 3 does not exist after the
\* partition-count stage, the run settles exactly once more and tests the
\* path again; if it is still absent the run ends in the not-ready error
\* with exit status 1, with no further retry and with no format, mount or
\* write issued.
C16_SingleSettleAndRecheck == []C16_State /\ [][C16_Step]_vars

\* C16's case: the disk had at most one partition, so the partition the run
\* made is not number 3, and the run ended in the not-ready error although
\* every device node is visible.
C16_Witness ==
    /\ pc = "done"
    /\ error = "not_ready"
    /\ Cardinality(OnDisk0) <= 1
    /\ Created # {}
    /\ \A q \in DOMAIN parttab : parttab[q].node

\* the mount targets of the partitions of the target disk at the start
ChildTargets0 ==
    {mounts0[k].target : k \in {k \in 1..Len(mounts0) :
                                    /\ mounts0[k].dev \in DOMAIN parttab0
                                    /\ parttab0[mounts0[k].dev].disk = disk}}

\* C17: when quiesce is over, a force-unmount has been attempted of every
\* mount target of every mounted partition of the target disk, whether or
\* not the attempts before it succeeded, and the run goes on to the next
\* stage.  Stated at the moment quiesce is over (the second inventory is
\* next), for the runs in which every query answered.
C17_QuiesceAttemptsAll ==
    pc = "lsblk2" /\ fails = {} =>
        \A t \in ChildTargets0 : \E i \in Ops({"umount_f"}) : calls[i].at = t

\* C19: mkfs.ext4 is issued only on a partition made by this run's
\* partition-creation step; a partition that existed when the run started
\* is never formatted.  Stated for the runs in which every query answered.
C19_FormatsOnlyCreated ==
    fails = {} => \A i \in Ops({"mkfs"}) : calls[i].dev \in Created

\* the disk a partition path belongs to, NoPath when no such partition exists
DiskOf(q) == IF q \in DOMAIN parttab THEN parttab[q].disk ELSE NoPath

\* C20: every partition the run creates, formats, mounts or writes the
\* activation file to is a partition of the resolved target disk (parted
\* mkpart is issued on the target disk itself).  Stated for the runs in
\* which every query answered.
C20_StaysOnTargetDisk ==
    fails = {} =>
        /\ \A i \in Ops({"mkpart"}) : calls[i].dev = disk
        /\ \A i \in Ops({"mkfs", "mount", "write"}) :
               calls[i].dev \in DOMAIN parttab => DiskOf(calls[i].dev) = disk

=============================================================================
